---- MODULE Spec2Model ----
(***************************************************************************)
(* Model of src/coin_tracker.py: the record computation                    *)
(* (calculate_record, snap_rate_to_multiplier) and the persistence of the  *)
(* collection in session state, the remote store and the local data file.  *)
(*                                                                         *)
(* Numbers.  Python computes the ratio boost/base and the table distances  *)
(* in binary floating point.  The model keeps a ratio as an exact fraction *)
(* [n, d] with d > 0, a table entry m as the fraction m*10/10, and a       *)
(* stored value as the decimal [whole, frac] that round() keeps (rate:     *)
(* frac in 1/1000, rate_raw: frac in 1/1000000).  For the integer inputs   *)
(* of the form (base <= 100000, boost <= 500000) two distinct distances    *)
(* differ by at least                                                      *)
(* 1/(10*base), far above the float error, and the exact ties (1.2, 1.4,   *)
(* 1.75, ...) are resolved by the float subtraction the same way as by the *)
(* first-minimum scan, so the exact fractions choose the entry the code    *)
(* chooses.  NaN and infinities cannot arise from integer inputs and are   *)
(* not modelled.                                                           *)
(***************************************************************************)
EXTENDS Integers, Sequences, FiniteSets, TLC

(***************************************************************************)
(* Bounds of the model.                                                    *)
(***************************************************************************)
MaxBase == 10
MaxBoost == 52
MaxRecords == 2

(***************************************************************************)
(* Program constants.                                                      *)
(***************************************************************************)
\* COIN_MULTIPLIERS, each entry times TableScale (1.1 -> 11, ..., 51 -> 510)
TableScale == 10
COIN_MULTIPLIERS == <<11, 13, 15, 20, 25, 30, 40, 50, 60, 110, 210, 510>>
Cost5to4 == 1800
CostPlusCoin == 500
RateDigits == 1000
RateRawDigits == 1000000

Abs(x) == IF x < 0 THEN -x ELSE x

\* abs(m - rate) for table entry m10/10 and rate n/d, times the common
\* positive factor 10*d: the order of the keys is the order of the distances
SnapKey_NoAbs(m10, rate) == m10 * rate.d - TableScale * rate.n

SnapKey(m10, rate) == Abs(m10 * rate.d - TableScale * rate.n)

\* Python's min(iterable, key=...): scan in order, keep the first minimum
\* (an element replaces the best so far only when its key is strictly less)
RECURSIVE MinScan_LastMin(_, _, _)
MinScan_LastMin(i, best, rate) ==
    IF i > Len(COIN_MULTIPLIERS) THEN best
    ELSE MinScan_LastMin(i + 1,
             IF SnapKey(COIN_MULTIPLIERS[i], rate) <= SnapKey(best, rate)
             THEN COIN_MULTIPLIERS[i] ELSE best, rate)

RECURSIVE MinScan(_, _, _)
MinScan(i, best, rate) ==
    IF i > Len(COIN_MULTIPLIERS) THEN best
    ELSE MinScan(i + 1,
             IF SnapKey(COIN_MULTIPLIERS[i], rate) < SnapKey(best, rate)
             THEN COIN_MULTIPLIERS[i] ELSE best, rate)

\* snap_rate_to_multiplier: rate <= 0 is returned unchanged
snap_NoGuard(rate) ==
    [n |-> MinScan(2, COIN_MULTIPLIERS[1], rate), d |-> TableScale]

snap_rate_to_multiplier(rate) ==
    IF rate.n <= 0 THEN rate
    ELSE [n |-> MinScan(2, COIN_MULTIPLIERS[1], rate), d |-> TableScale]

\* round(x, k) for x = n/d and scale = 10^k, round half to even.  The result
\* is the decimal whole + frac/scale with 0 <= frac < scale (so -0.5 is
\* whole -1, frac scale/2); \div and % are floor division and its remainder
RoundTo(rate, scale) ==
    LET whole == rate.n \div rate.d
        x == (rate.n % rate.d) * scale
        q == x \div rate.d
        r == x % rate.d
        f == IF 2 * r < rate.d THEN q
             ELSE IF 2 * r > rate.d THEN q + 1
             ELSE IF q % 2 = 0 THEN q ELSE q + 1
    IN  IF f = scale THEN [whole |-> whole + 1, frac |-> 0]
        ELSE [whole |-> whole, frac |-> f]

Adjust(use_5to4, use_plus_coin) ==
    (IF use_5to4 THEN Cost5to4 ELSE 0) + (IF use_plus_coin THEN CostPlusCoin ELSE 0)

FinalCoin_NoFloor(boost_coin, adjust) == boost_coin - adjust

FinalCoin(boost_coin, adjust) ==
    IF boost_coin - adjust < 0 THEN 0 ELSE boost_coin - adjust

RateRaw(base_coin, boost_coin) ==
    IF base_coin > 0 THEN [n |-> boost_coin, d |-> base_coin]
    ELSE [n |-> 0, d |-> 1]

calculate_record(base_coin, boost_coin, use_5to4, use_plus_coin) ==
    LET final_coin == FinalCoin(boost_coin, Adjust(use_5to4, use_plus_coin))
        rate_raw == RateRaw(base_coin, boost_coin)
        rate == snap_rate_to_multiplier(rate_raw)
    IN  [base |-> base_coin,
         boost |-> boost_coin,
         final |-> final_coin,
         rate_raw |-> RoundTo(rate_raw, RateRawDigits),
         rate |-> RoundTo(rate, RateDigits)]

(***************************************************************************)
(* State.                                                                  *)
(*   cin, cout        inputs and result of one calculate_record call       *)
(*   secrets          st.secrets: readable flag and key -> value           *)
(*   session_cfg      the configuration keys of st.session_state           *)
(*   loaded           'coin_data' in st.session_state                      *)
(*   coin_data        st.session_state.coin_data                           *)
(*   remote           the file at the configured path of the remote store  *)
(*   localfile        DATA_FILE on the local filesystem                    *)
(*   uploaded_file    the file held by the st.file_uploader widget         *)
(*   confirm_delete, confirm_delete_all, last_github_save                  *)
(*                    the session_state keys of these names                *)
(*   msgs             the st.warning/st.error/... elements of this run     *)
(*   pc, event        position in the script run and the widget event that *)
(*                    started it                                           *)
(*   save             the save in progress (argument, caller, GET result,  *)
(*                    continuation)                                        *)
(*   trace            what the load, the save and the webhook posts of    *)
(*                    this run did                                         *)
(*   last_click       the widget event that started the latest run, and    *)
(*                    whether it repeats the event before it               *)
(***************************************************************************)
VARIABLES cin, cout, secrets, session_cfg, loaded, coin_data, remote,
          localfile, uploaded_file, confirm_delete, confirm_delete_all,
          last_github_save, msgs, pc, event, save, trace, last_click

vars == <<cin, cout, secrets, session_cfg, loaded, coin_data, remote,
          localfile, uploaded_file, confirm_delete, confirm_delete_all,
          last_github_save, msgs, pc, event, save, trace, last_click>>

sessionVars == <<secrets, session_cfg, loaded, coin_data, remote,
                 localfile, uploaded_file, confirm_delete, confirm_delete_all,
                 last_github_save, msgs, pc, event, save, trace, last_click>>

(***************************************************************************)
(* Values.                                                                 *)
(***************************************************************************)
Names == <<"A", "B">>

EmptyColl == [k \in {} |-> <<>>]

\* the form inputs the add operation is tried with
AddInputs ==
    << [base |-> 1000, boost |-> 2000, use_5to4 |-> FALSE, use_plus_coin |-> FALSE],
       [base |-> 1000, boost |-> 1250, use_5to4 |-> TRUE, use_plus_coin |-> FALSE] >>

RecOf(inp) == calculate_record(inp.base, inp.boost, inp.use_5to4, inp.use_plus_coin)

Rec1 == RecOf(AddInputs[1])
Rec2 == RecOf(AddInputs[2])

NoInput == [base |-> 0, boost |-> 0, use_5to4 |-> FALSE, use_plus_coin |-> FALSE]

\* a stored file: missing, not parseable as JSON, or a JSON collection
Missing == [kind |-> "missing", content |-> EmptyColl]
Garbage == [kind |-> "garbage", content |-> EmptyColl]
JsonFile(c) == [kind |-> "json", content |-> c]

\* contents found in the stores when the session starts, written by another
\* writer of the remote file, or chosen in the uploader
CollA1 == [k \in {"A"} |-> <<Rec1>>]
CollA2 == [k \in {"A"} |-> <<Rec2>>]
CollB2 == [k \in {"B"} |-> <<Rec2>>]
CollA1BEmptySeq == [k \in {"A", "B"} |-> IF k = "A" THEN <<Rec1>> ELSE <<>>]

InitRemote == {Missing, Garbage, JsonFile(CollA1)}
InitLocal == {Missing, Garbage, JsonFile(CollA2)}
OtherContents == {CollA2}
UploadFiles == <<Garbage, JsonFile(CollA1BEmptySeq)>>
NoFile == [kind |-> "none", content |-> EmptyColl]

(***************************************************************************)
(* Configuration: get_config_value and the sidebar.                        *)
(***************************************************************************)
CfgKeys == {"github_token", "github_owner", "github_repo"}

\* what a text input of the sidebar is edited to: empty or some text
CfgValues == {"", "v"}

FallbackKey(key) ==
    CASE key = "github_token" -> "GITHUB_TOKEN"
      [] key = "github_owner" -> "GITHUB_OWNER"
      [] key = "github_repo" -> "GITHUB_REPO"

NoSecrets == [readable |-> TRUE, kv |-> [k \in {} |-> ""]]
UnreadableSecrets == [readable |-> FALSE, kv |-> [k \in {} |-> ""]]
FullSecrets ==
    [readable |-> TRUE,
     kv |-> [k \in {"GITHUB_TOKEN", "GITHUB_OWNER", "GITHUB_REPO"} |-> "v"]]
TokenOnlySecrets ==
    [readable |-> TRUE, kv |-> [k \in {"github_token"} |-> "v"]]
OwnerRepoSecrets ==
    [readable |-> TRUE, kv |-> [k \in {"GITHUB_OWNER", "github_repo"} |-> "v"]]

\* the secrets a session starts with
SecretsChoices ==
    {NoSecrets, UnreadableSecrets, FullSecrets, TokenOnlySecrets, OwnerRepoSecrets}

\* get_config_value(key, fallback_key, default_value): the secrets first (a
\* failure while reading them is swallowed), then the session state
get_config_value_SessionFirst(sec, ses, key, fallback_key, default_value) ==
    IF key \in DOMAIN ses THEN ses[key]
    ELSE IF fallback_key # "" /\ fallback_key \in DOMAIN ses THEN ses[fallback_key]
    ELSE IF sec.readable /\ key \in DOMAIN sec.kv THEN sec.kv[key]
    ELSE IF sec.readable /\ fallback_key # "" /\ fallback_key \in DOMAIN sec.kv
         THEN sec.kv[fallback_key]
    ELSE default_value

get_config_value(sec, ses, key, fallback_key, default_value) ==
    IF sec.readable /\ key \in DOMAIN sec.kv THEN sec.kv[key]
    ELSE IF sec.readable /\ fallback_key # "" /\ fallback_key \in DOMAIN sec.kv
         THEN sec.kv[fallback_key]
    ELSE IF key \in DOMAIN ses THEN ses[key]
    ELSE IF fallback_key # "" /\ fallback_key \in DOMAIN ses THEN ses[fallback_key]
    ELSE default_value

Cfg(sec, ses, key) == get_config_value(sec, ses, key, FallbackKey(key), "")

\* `if github_token and github_owner and github_repo`
RemoteComplete(token, owner, repo) == token # "" /\ owner # "" /\ repo # ""

\* the condition of load_existing_data and save_data_to_session
CfgComplete(sec, ses) ==
    RemoteComplete(Cfg(sec, ses, "github_token"), Cfg(sec, ses, "github_owner"),
                   Cfg(sec, ses, "github_repo"))

\* main: a value set in the secrets is shown read-only; any other key takes
\* the text input's value, which is written back to the session state
SecretLocked(sec, ses, key) ==
    /\ Cfg(sec, ses, key) # ""
    /\ sec.readable
    /\ (key \in DOMAIN sec.kv \/ FallbackKey(key) \in DOMAIN sec.kv)

\* the session state after the sidebar of a run in which no input was edited:
\* an unlocked key not yet in the session state gets the empty input's value
SidebarFill(sec, ses) ==
    [k \in DOMAIN ses \cup {x \in CfgKeys : ~SecretLocked(sec, ses, x)} |->
        IF k \in DOMAIN ses THEN ses[k] ELSE ""]

\* the sidebar's local github_token / github_owner / github_repo
SidebarValue(sec, ses, key) ==
    IF SecretLocked(sec, ses, key) THEN Cfg(sec, ses, key)
    ELSE IF key \in DOMAIN ses THEN ses[key] ELSE ""

SidebarComplete(sec, ses) ==
    RemoteComplete(SidebarValue(sec, ses, "github_token"),
                   SidebarValue(sec, ses, "github_owner"),
                   SidebarValue(sec, ses, "github_repo"))

(***************************************************************************)
(* The remote store and the local file.                                    *)
(***************************************************************************)
\* what a request meets: an answer decided by the store, a transport
\* exception, or an answer with some other status (401, 403, 500, ...)
NetOutcomes == {"ok", "exception", "status_other"}

\* the store's answer to GET: 200 for an existing file, 404 for a missing one
HttpGet(net, rem) ==
    IF net = "exception" THEN "exception"
    ELSE IF net = "status_other" THEN "500"
    ELSE IF rem.kind = "missing" THEN "404" ELSE "200"

NoSha == [present |-> FALSE, of |-> Missing]

\* the store's answer to PUT: a new file is created when no marker is sent
\* (201), an existing file is replaced when the marker sent is the one of its
\* current content (200); any other combination is rejected
HttpPut(net, rem, sha) ==
    IF net = "exception" THEN "exception"
    ELSE IF net = "status_other" THEN "500"
    ELSE IF rem.kind = "missing" THEN (IF sha.present THEN "409" ELSE "201")
    ELSE IF ~sha.present THEN "422"
    ELSE IF sha.of = rem THEN "200" ELSE "409"

\* the store replaces the file exactly when it answers the PUT with 200 or 201
PutAccepted(status) == status = "200" \/ status = "201"

\* get_github_file: (data, error); error = "" stands for None
get_github_file_StatusUnchecked(token, net, rem) ==
    LET status == HttpGet(net, rem)
    IN  IF token = "" THEN [data |-> EmptyColl, error |-> "no_token", status |-> "none"]
        ELSE IF status = "exception"
             THEN [data |-> EmptyColl, error |-> "exception", status |-> status]
        ELSE IF status = "200" /\ rem.kind # "json"
             THEN [data |-> EmptyColl, error |-> "exception", status |-> status]
        ELSE IF status = "200"
             THEN [data |-> rem.content, error |-> "", status |-> status]
        ELSE [data |-> EmptyColl, error |-> "", status |-> status]

get_github_file_404IsError(token, net, rem) ==
    LET status == HttpGet(net, rem)
    IN  IF token = "" THEN [data |-> EmptyColl, error |-> "no_token", status |-> "none"]
        ELSE IF status = "200" /\ rem.kind = "json"
             THEN [data |-> rem.content, error |-> "", status |-> status]
        ELSE IF status = "exception" \/ status = "200"
             THEN [data |-> EmptyColl, error |-> "exception", status |-> status]
        ELSE [data |-> EmptyColl, error |-> "api_status", status |-> status]

get_github_file(token, net, rem) ==
    LET status == HttpGet(net, rem)
    IN  IF token = "" THEN [data |-> EmptyColl, error |-> "no_token", status |-> "none"]
        ELSE IF status = "exception"
             THEN [data |-> EmptyColl, error |-> "exception", status |-> status]
        ELSE IF status = "200"
             THEN \* response.json(), b64decode and json.loads raise inside the try
                  IF rem.kind = "json"
                  THEN [data |-> rem.content, error |-> "", status |-> status]
                  ELSE [data |-> EmptyColl, error |-> "exception", status |-> status]
        ELSE IF status = "404"
             THEN [data |-> EmptyColl, error |-> "", status |-> status]
        ELSE [data |-> EmptyColl, error |-> "api_status", status |-> status]

\* save_to_github, first request: sha is set when the GET answers 200
ShaFromGet_Never(status, rem) == NoSha

ShaFromGet_Always(status, rem) == [present |-> TRUE, of |-> rem]

ShaFromGet(status, rem) ==
    IF status = "200" THEN [present |-> TRUE, of |-> rem] ELSE NoSha

\* save_to_github, second request: success is a 200 or a 201
PutSucceeded(status) == status = "200" \/ status = "201"

\* save_data_to_file: open(DATA_FILE, 'w') and json.dump inside a try.  The
\* write succeeds, fails at open (the file is untouched) or fails after open
\* has truncated the file (what is left does not parse)
LocalOutcomes == {"ok", "denied", "partial"}

save_data_to_file_Silent(data, outcome, lf) ==
    [file |-> IF outcome = "ok" THEN JsonFile(data)
              ELSE IF outcome = "partial" THEN Garbage ELSE lf,
     ok |-> outcome = "ok",
     msgs |-> {}]

save_data_to_file(data, outcome, lf) ==
    [file |-> IF outcome = "ok" THEN JsonFile(data)
              ELSE IF outcome = "partial" THEN Garbage ELSE lf,
     ok |-> outcome = "ok",
     msgs |-> IF outcome = "ok" THEN {} ELSE {"file_save_error"}]

Truthy(data) == DOMAIN data # {}

\* load_existing_data, the branch taken when 'coin_data' is not in the
\* session state
FirstLoad_LocalOnRemoteError(complete, token, net, rem, lf) ==
    LET g == get_github_file(token, net, rem)
    IN  IF complete /\ g.error = ""
        THEN [data |-> g.data,
              msgs |-> IF Truthy(g.data) THEN {"github_load_success"} ELSE {},
              remote_get |-> g.status, local_read |-> FALSE]
        ELSE IF lf.kind = "json"
        THEN [data |-> lf.content, msgs |-> {"local_load_info"},
              remote_get |-> IF complete THEN g.status ELSE "none",
              local_read |-> TRUE]
        ELSE [data |-> EmptyColl, msgs |-> {},
              remote_get |-> IF complete THEN g.status ELSE "none",
              local_read |-> lf.kind # "missing"]

FirstLoad(complete, token, net, rem, lf) ==
    IF complete
    THEN LET g == get_github_file(token, net, rem)
         IN  IF g.error # ""
             THEN [data |-> EmptyColl, msgs |-> {"github_load_warning"},
                   remote_get |-> g.status, local_read |-> FALSE]
             ELSE [data |-> g.data,
                   msgs |-> IF Truthy(g.data) THEN {"github_load_success"} ELSE {},
                   remote_get |-> g.status, local_read |-> FALSE]
    ELSE IF lf.kind # "missing"
    THEN IF lf.kind = "json"
         THEN [data |-> lf.content, msgs |-> {"local_load_info"},
               remote_get |-> "none", local_read |-> TRUE]
         ELSE [data |-> EmptyColl, msgs |-> {"local_load_warning"},
               remote_get |-> "none", local_read |-> TRUE]
    ELSE [data |-> EmptyColl, msgs |-> {},
          remote_get |-> "none", local_read |-> FALSE]

\* load_existing_data: the stores are consulted only when 'coin_data' is not
\* in the session state; otherwise st.session_state.coin_data is returned
load_existing_data_Reloads(in_session, cur, complete, token, net, rem, lf) ==
    FirstLoad(complete, token, net, rem, lf)

load_existing_data(in_session, cur, complete, token, net, rem, lf) ==
    IF in_session
    THEN [data |-> cur, msgs |-> {}, remote_get |-> "none", local_read |-> FALSE]
    ELSE FirstLoad(complete, token, net, rem, lf)

\* the sidebar's element for the outcome of the last remote save (lines
\* 484-490), drawn at the start of every run
SaveStatus(last) ==
    IF last = "ok" THEN {"github_save_status_ok"}
    ELSE IF last = "fail" THEN {"github_save_status_fail"}
    ELSE {}

(***************************************************************************)
(* One script run.  A widget event starts a run (pc = "upload"); the run   *)
(* executes the upload block, then the handler of the clicked button, and  *)
(* ends idle or with st.rerun(), which starts a run without an event.  A   *)
(* remote save is two requests (pc = "get", "put"); the statements of a    *)
(* handler that follow its save run at pc = "after".                       *)
(***************************************************************************)
NoEvent == [type |-> "none", name |-> "", inp |-> NoInput]

NoSave == [data |-> EmptyColl, via |-> "none", cont |-> "idle",
           sha |-> NoSha, get_status |-> "none", remote_at_get |-> Missing]

NoLoadTrace == [done |-> FALSE, complete |-> FALSE, remote_get |-> "none",
                local_read |-> FALSE, remote_at |-> Missing]

NoSaveTrace == [via |-> "none", data |-> EmptyColl, complete |-> FALSE,
                remote |-> "none", local |-> "none", get_status |-> "none",
                put_status |-> "none", sha_sent |-> FALSE,
                remote_at_get |-> Missing, remote_at_put |-> Missing,
                emitted |-> {}]

\* a call of load_existing_data in a run after the first: whether it read a
\* store and whether it returned the collection of the session state
NoLaterTrace == [called |-> FALSE, store_read |-> FALSE, same |-> TRUE]

NoTrace == [load |-> NoLoadTrace, save |-> NoSaveTrace, later |-> NoLaterTrace,
            posts |-> <<>>]

\* what a widget event is remembered as: a click on the delete-latest button
\* of an entity, or anything else
ClickOf(ev) ==
    IF ev.type = "delete" THEN [type |-> "delete", name |-> ev.name]
    ELSE [type |-> "other", name |-> ""]

NoClick == [cur |-> [type |-> "none", name |-> ""], repeat |-> FALSE]

InitSession(secretsChoices, remotes, locals) ==
    /\ secrets \in secretsChoices
    /\ session_cfg = [k \in {} |-> ""]
    /\ loaded = FALSE
    /\ coin_data = EmptyColl
    /\ remote \in remotes
    /\ localfile \in locals
    /\ uploaded_file = NoFile
    /\ confirm_delete = FALSE
    /\ confirm_delete_all = FALSE
    /\ last_github_save = "unset"
    /\ msgs = {}
    /\ pc = "idle"
    /\ event = NoEvent
    /\ save = NoSave
    /\ trace = NoTrace
    /\ last_click = NoClick

NoCalcIn == [base |-> 0, boost |-> 0, use_5to4 |-> FALSE, use_plus_coin |-> FALSE]
Zero == [whole |-> 0, frac |-> 0]
NoRecord == [base |-> 0, boost |-> 0, final |-> 0, rate_raw |-> Zero, rate |-> Zero]
NoCalcOut == [done |-> FALSE, rec |-> NoRecord,
              snap_done |-> FALSE, snap |-> [n |-> 0, d |-> 1]]

\* Spec: the persistence of one entity's records.  The session starts with
\* any of the secrets, remote files and local files below; the user edits the
\* configuration, adds records, reloads and saves by hand, and another writer
\* replaces the remote file at any time
Init ==
    /\ InitSession(SecretsChoices, InitRemote, InitLocal)
    /\ cin = NoCalcIn
    /\ cout = NoCalcOut

\* SpecUI: every button and the uploader, for two entities, in a session
\* without remote configuration (each save writes the local file)
InitUI ==
    /\ InitSession({NoSecrets}, {Missing}, {Missing, JsonFile(CollB2)})
    /\ cin = NoCalcIn
    /\ cout = NoCalcOut

\* the first run of a session: no widget has an event, the sidebar writes the
\* empty inputs to the session state, and load_existing_data (line 620) loads
FirstRun ==
    /\ pc = "idle"
    /\ ~loaded
    /\ \E net \in NetOutcomes :
         LET ses == SidebarFill(secrets, session_cfg)
             complete == CfgComplete(secrets, ses)
             r == load_existing_data(loaded, coin_data, complete,
                                     Cfg(secrets, ses, "github_token"),
                                     net, remote, localfile)
         IN  /\ session_cfg' = ses
             /\ coin_data' = r.data
             /\ msgs' = r.msgs
             /\ trace' = [trace EXCEPT !.load =
                    [done |-> TRUE, complete |-> complete,
                     remote_get |-> r.remote_get, local_read |-> r.local_read,
                     remote_at |-> remote]]
    /\ loaded' = TRUE
    /\ UNCHANGED <<cin, cout, last_click, secrets, remote, localfile, uploaded_file,
                   confirm_delete, confirm_delete_all, last_github_save, pc,
                   event, save>>

\* a widget event of a loaded, idle session starts a run
StartRun(ev) ==
    /\ pc = "idle"
    /\ loaded
    /\ pc' = "upload"
    /\ event' = ev
    /\ msgs' = SaveStatus(last_github_save)
    /\ trace' = NoTrace
    /\ save' = NoSave
    /\ last_click' = [cur |-> ClickOf(ev),
                      repeat |-> ev.type = "delete" /\ last_click.cur = ClickOf(ev)]

\* the webhook settings as the record form resolves them (lines 776-784):
\* the URL by get_config_value; a toggle is the session value the sidebar's
\* checkbox has written, which is the value of the secrets (or False) until
\* the user changes the checkbox
HookUrl(sec, ses) ==
    get_config_value(sec, ses, "discord_webhook_url", "DISCORD_WEBHOOK_URL", "")

AutoSend(sec, ses, key, fallback_key) ==
    IF key \in DOMAIN ses THEN ses[key]
    ELSE get_config_value(sec, ses, key, fallback_key, FALSE)

\* the sidebar shows the URL read-only when the secrets set it (line 503)
HookUrlLocked(sec, ses) ==
    /\ HookUrl(sec, ses) # ""
    /\ sec.readable
    /\ ("DISCORD_WEBHOOK_URL" \in DOMAIN sec.kv
          \/ "discord_webhook_url" \in DOMAIN sec.kv)

\* secrets that configure the webhook
HookSecrets ==
    [readable |-> TRUE,
     kv |-> [k \in {"DISCORD_WEBHOOK_URL", "AUTO_SEND_JSON"} |->
                IF k = "AUTO_SEND_JSON" THEN TRUE ELSE "hook"]]
AutoRecordSecrets ==
    [readable |-> TRUE, kv |-> [k \in {"AUTO_SEND_DISCORD"} |-> TRUE]]
HookSecretsChoices == {NoSecrets, HookSecrets, AutoRecordSecrets}

\* the values the user gives the webhook inputs of the sidebar
HookEdits ==
    << [key |-> "discord_webhook_url", fallback_key |-> "DISCORD_WEBHOOK_URL",
        toggle |-> FALSE, url |-> "hook"],
       [key |-> "discord_webhook_url", fallback_key |-> "DISCORD_WEBHOOK_URL",
        toggle |-> FALSE, url |-> ""],
       [key |-> "auto_send_discord", fallback_key |-> "AUTO_SEND_DISCORD",
        toggle |-> TRUE, url |-> ""],
       [key |-> "auto_send_discord", fallback_key |-> "AUTO_SEND_DISCORD",
        toggle |-> FALSE, url |-> ""],
       [key |-> "auto_send_json", fallback_key |-> "AUTO_SEND_JSON",
        toggle |-> TRUE, url |-> ""],
       [key |-> "auto_send_json", fallback_key |-> "AUTO_SEND_JSON",
        toggle |-> FALSE, url |-> ""] >>

\* the collection the handler of the next run will see (an uploaded file that
\* parses replaces the session's collection before any handler runs)
DataAtHandler ==
    IF uploaded_file.kind = "json" THEN uploaded_file.content ELSE coin_data

\* a text input of the sidebar is edited (only inputs not set by the secrets
\* are editable); the sidebar writes the value to the session state
EditConfig ==
    /\ \E k \in CfgKeys, v \in CfgValues :
         /\ ~SecretLocked(secrets, session_cfg, k)
         /\ k \in DOMAIN session_cfg
         /\ session_cfg[k] # v
         /\ session_cfg' = [session_cfg EXCEPT ![k] = v]
    /\ StartRun([NoEvent EXCEPT !.type = "edit"])
    /\ UNCHANGED <<cin, cout, secrets, loaded, coin_data, remote, localfile,
                   uploaded_file, confirm_delete, confirm_delete_all,
                   last_github_save>>

\* the webhook URL input (lines 511-518) or an auto-send checkbox (lines
\* 526-531, 538-543) of the sidebar is changed; the sidebar writes the value
\* to the session state
EditHook ==
    /\ \E i \in 1..Len(HookEdits) :
         LET e == HookEdits[i]
         IN  IF e.key = "discord_webhook_url"
             THEN /\ ~HookUrlLocked(secrets, session_cfg)
                  /\ HookUrl(secrets, session_cfg) # e.url
                  /\ session_cfg' = [k \in DOMAIN session_cfg \cup {e.key} |->
                                        IF k = e.key THEN e.url ELSE session_cfg[k]]
             ELSE /\ AutoSend(secrets, session_cfg, e.key, e.fallback_key) # e.toggle
                  /\ session_cfg' = [k \in DOMAIN session_cfg \cup {e.key} |->
                                        IF k = e.key THEN e.toggle ELSE session_cfg[k]]
    /\ StartRun([NoEvent EXCEPT !.type = "edit"])
    /\ UNCHANGED <<cin, cout, secrets, loaded, coin_data, remote, localfile,
                   uploaded_file, confirm_delete, confirm_delete_all,
                   last_github_save>>

\* a file is chosen in, or removed from, the uploader
ChooseFrom(files) ==
    /\ \E k \in 0..Len(files) :
         LET f == IF k > 0 THEN files[k] ELSE NoFile
         IN  /\ f # uploaded_file
             /\ uploaded_file' = f
    /\ StartRun([NoEvent EXCEPT !.type = "file"])
    /\ UNCHANGED <<cin, cout, secrets, session_cfg, loaded, coin_data, remote,
                   localfile, confirm_delete, confirm_delete_all,
                   last_github_save>>

RECURSIVE SumLen(_, _)
SumLen(data, keys) ==
    IF keys = {} THEN 0
    ELSE LET k == CHOOSE x \in keys : TRUE
         IN  Len(data[k]) + SumLen(data, keys \ {k})

\* sum(len(records) for records in data.values())
TotalRecords(data) == SumLen(data, DOMAIN data)

\* a button is clicked; a button can be clicked when the last run drew it.
\* The add button is clicked only while the collection the handler will see
\* holds fewer than MaxRecords records
Clickable(type, name, has_inp) ==
    CASE type = "reload" -> name = "" /\ ~has_inp
      [] type = "manual_save" -> name = "" /\ ~has_inp /\ Truthy(coin_data)
      [] type = "arm_all" ->
            name = "" /\ ~has_inp /\ Truthy(coin_data) /\ ~confirm_delete_all
      [] type = "cancel_all" \/ type = "exec_all" ->
            name = "" /\ ~has_inp /\ Truthy(coin_data) /\ confirm_delete_all
      [] type = "add" ->
            name # "" /\ has_inp /\ TotalRecords(DataAtHandler) < MaxRecords
      [] type = "delete" ->
            /\ name # "" /\ ~has_inp
            /\ name \in DOMAIN coin_data
            /\ coin_data[name] # <<>>
      [] type = "send_record" ->
            name # "" /\ HookUrl(secrets, session_cfg) # ""
      [] type = "send_json" ->
            name # "" /\ ~has_inp /\ HookUrl(secrets, session_cfg) # ""
      [] OTHER -> FALSE

Click(types, names) ==
    /\ \E t \in 1..Len(types), n \in 0..Len(names), k \in 0..Len(AddInputs) :
         LET name == IF n > 0 THEN names[n] ELSE ""
         IN  /\ Clickable(types[t], name, k > 0)
             /\ StartRun([type |-> types[t], name |-> name,
                          inp |-> IF k > 0 THEN AddInputs[k] ELSE NoInput])
    /\ UNCHANGED <<cin, cout, secrets, session_cfg, loaded, coin_data, remote,
                   localfile, uploaded_file, confirm_delete, confirm_delete_all,
                   last_github_save>>

\* save_data_to_session: whether save_data_to_file is called once the remote
\* save has returned `success` (lines 276-281)
LocalFallback_Never(success) == FALSE

LocalFallback(success) == ~success

\* save_data_to_session(data), up to its first request: the session state is
\* assigned; with a complete remote configuration save_to_github starts,
\* otherwise the local file is written at once.  m0: the run's elements so
\* far; cont: where the run goes on after the save
save_data_to_session(data, cont, m0) ==
    /\ coin_data' = data
    /\ IF CfgComplete(secrets, session_cfg)
       THEN /\ pc' = "get"
            /\ save' = [NoSave EXCEPT !.data = data, !.via = "session",
                                      !.cont = cont]
            /\ msgs' = m0
            /\ trace' = [trace EXCEPT !.save =
                   [NoSaveTrace EXCEPT !.via = "session", !.data = data,
                                       !.complete = TRUE]]
            /\ UNCHANGED localfile
       ELSE \E o \in LocalOutcomes :
              LET r == save_data_to_file(data, o, localfile)
              IN  /\ localfile' = r.file
                  /\ msgs' = m0 \cup r.msgs
                  /\ pc' = cont
                  /\ trace' = [trace EXCEPT !.save =
                         [NoSaveTrace EXCEPT !.via = "session", !.data = data,
                              !.local = IF r.ok THEN "ok" ELSE "fail",
                              !.emitted = r.msgs]]
                  /\ UNCHANGED save
    /\ UNCHANGED last_github_save

\* the upload block (lines 594-601): it runs in every run, for the file the
\* uploader holds
UploadBlock ==
    /\ pc = "upload"
    /\ IF uploaded_file.kind = "json"
       THEN save_data_to_session(uploaded_file.content, "load", msgs)
       ELSE /\ pc' = "load"
            /\ msgs' = IF uploaded_file.kind = "garbage"
                       THEN msgs \cup {"upload_error"} ELSE msgs
            /\ UNCHANGED <<coin_data, save, localfile, trace, last_github_save>>
    /\ UNCHANGED <<cin, cout, last_click, secrets, session_cfg, loaded, remote,
                   uploaded_file, confirm_delete, confirm_delete_all, event>>

\* load_existing_data as called by every run after the upload block (lines
\* 620 and 669)
LoadData ==
    /\ pc = "load"
    /\ \E net \in NetOutcomes :
         LET r == load_existing_data(loaded, coin_data,
                                     CfgComplete(secrets, session_cfg),
                                     Cfg(secrets, session_cfg, "github_token"),
                                     net, remote, localfile)
         IN  /\ coin_data' = r.data
             /\ msgs' = msgs \cup r.msgs
             /\ trace' = [trace EXCEPT !.later =
                    [called |-> TRUE,
                     store_read |-> r.remote_get # "none" \/ r.local_read,
                     same |-> r.data = coin_data]]
    /\ pc' = "handler"
    /\ UNCHANGED <<cin, cout, last_click, secrets, session_cfg, loaded, remote,
                   localfile, uploaded_file, confirm_delete, confirm_delete_all,
                   last_github_save, event, save>>

\* save_to_github, the GET (lines 79-82); an exception ends the save
SaveGet ==
    /\ pc = "get"
    /\ \E net \in NetOutcomes :
         LET status == HttpGet(net, remote)
         IN  IF status # "exception"
             THEN /\ pc' = "put"
                  /\ save' = [save EXCEPT !.sha = ShaFromGet(status, remote),
                                          !.get_status = status,
                                          !.remote_at_get = remote]
                  /\ UNCHANGED <<localfile, msgs, trace, last_github_save>>
             ELSE /\ pc' = save.cont
                  /\ last_github_save' = "fail"
                  /\ UNCHANGED save
                  /\ IF save.via = "session" /\ LocalFallback(FALSE)
                     THEN \E o \in LocalOutcomes :
                            LET r == save_data_to_file(save.data, o, localfile)
                            IN  /\ localfile' = r.file
                                /\ msgs' = msgs \cup r.msgs
                                /\ trace' = [trace EXCEPT !.save =
                                       [@ EXCEPT !.remote = "fail",
                                            !.get_status = status,
                                            !.remote_at_get = remote,
                                            !.local = IF r.ok THEN "ok" ELSE "fail",
                                            !.emitted = r.msgs]]
                     ELSE /\ UNCHANGED <<localfile, msgs>>
                          /\ trace' = [trace EXCEPT !.save =
                                 [@ EXCEPT !.remote = "fail",
                                      !.get_status = status,
                                      !.remote_at_get = remote]]
    /\ UNCHANGED <<cin, cout, last_click, secrets, session_cfg, loaded, coin_data, remote,
                   uploaded_file, confirm_delete, confirm_delete_all, event>>

\* save_to_github, the PUT (lines 85-105), and what save_data_to_session does
\* with its result (lines 276-281)
SavePut ==
    /\ pc = "put"
    /\ \E net \in NetOutcomes :
         LET status == HttpPut(net, remote, save.sha)
             success == PutSucceeded(status)
             t == [trace.save EXCEPT !.remote = IF success THEN "ok" ELSE "fail",
                        !.get_status = save.get_status,
                        !.put_status = status,
                        !.sha_sent = save.sha.present,
                        !.remote_at_get = save.remote_at_get,
                        !.remote_at_put = remote]
         IN  /\ remote' = IF PutAccepted(status) THEN JsonFile(save.data) ELSE remote
             /\ last_github_save' = IF success THEN "ok" ELSE "fail"
             /\ IF save.via = "session" /\ LocalFallback(success)
                THEN \E o \in LocalOutcomes :
                       LET r == save_data_to_file(save.data, o, localfile)
                       IN  /\ localfile' = r.file
                           /\ msgs' = msgs \cup r.msgs
                           /\ trace' = [trace EXCEPT !.save =
                                  [t EXCEPT !.local = IF r.ok THEN "ok" ELSE "fail",
                                            !.emitted = r.msgs]]
                ELSE /\ UNCHANGED <<localfile, msgs>>
                     /\ trace' = [trace EXCEPT !.save = t]
    /\ pc' = save.cont
    /\ UNCHANGED <<cin, cout, last_click, secrets, session_cfg, loaded, coin_data,
                   uploaded_file, confirm_delete, confirm_delete_all, event,
                   save>>

\* another writer of the remote file (another session, or an edit in the
\* repository) replaces its content
OtherWriter ==
    /\ loaded
    /\ \E c \in OtherContents :
         /\ remote # JsonFile(c)
         /\ remote' = JsonFile(c)
    /\ UNCHANGED <<cin, cout, last_click, secrets, session_cfg, loaded, coin_data,
                   localfile, uploaded_file, confirm_delete, confirm_delete_all,
                   last_github_save, msgs, pc, event, save, trace>>

\* st.rerun(): the run stops and a run without a widget event starts; the
\* elements drawn so far are replaced by those of the new run
Rerun ==
    /\ pc' = "upload"
    /\ event' = NoEvent
    /\ msgs' = SaveStatus(last_github_save)
    /\ trace' = NoTrace
    /\ save' = NoSave

\* the run ends: the script has drawn the page and waits for an event
EndRun(m) ==
    /\ pc' = "idle"
    /\ msgs' = m
    /\ event' = NoEvent
    /\ trace' = NoTrace
    /\ save' = NoSave

\* the answers of the webhook to a post
HookAnswers == <<"200", "204", "400", "exception">>

\* send_to_discord (lines 107-176): no request without a URL; success is the
\* status 204; an exception is caught
send_to_discord(webhook_url, tsum_name, record, answer) ==
    [kind |-> "record", url |-> webhook_url, name |-> tsum_name,
     record |-> <<record>>, data |-> EmptyColl,
     requested |-> webhook_url # "",
     ok |-> webhook_url # "" /\ answer = "204"]

\* send_json_to_discord (lines 178-228): no request without a URL; the file
\* is the dump of json_data; success is the status 200
send_json_to_discord(webhook_url, json_data, answer) ==
    [kind |-> "json", url |-> webhook_url, name |-> "",
     record |-> <<>>, data |-> json_data,
     requested |-> webhook_url # "",
     ok |-> webhook_url # "" /\ answer = "200"]

\* the automatic posts of an add (lines 819-832), in their order
AutoPosts_IgnoreToggle(url, auto_record, auto_json, name, record, data, a1, a2) ==
    (IF auto_record /\ url # ""
     THEN <<send_to_discord(url, name, record, a1)>> ELSE <<>>)
    \o (IF url # ""
        THEN <<send_json_to_discord(url, data, a2)>> ELSE <<>>)

AutoPosts(url, auto_record, auto_json, name, record, data, a1, a2) ==
    (IF auto_record /\ url # ""
     THEN <<send_to_discord(url, name, record, a1)>> ELSE <<>>)
    \o (IF auto_json /\ url # ""
        THEN <<send_json_to_discord(url, data, a2)>> ELSE <<>>)

\* the element a post leaves on the page
PostMsg(post) == IF post.ok THEN "post_ok" ELSE "post_fail"

\* st.rerun() of a run that has posted to the webhook
RerunSent(posts) ==
    /\ pc' = "upload"
    /\ event' = NoEvent
    /\ msgs' = SaveStatus(last_github_save)
    /\ trace' = [NoTrace EXCEPT !.posts = posts]
    /\ save' = NoSave

\* the end of a run that has posted to the webhook
EndRunSent(m, posts) ==
    /\ pc' = "idle"
    /\ msgs' = m
    /\ event' = NoEvent
    /\ trace' = [NoTrace EXCEPT !.posts = posts]
    /\ save' = NoSave

\* data[selected_tsum].append(record), on a new list for a new name
AppendRecord_Front(data, name, record) ==
    [k \in DOMAIN data \cup {name} |->
        IF k = name
        THEN <<record>> \o (IF name \in DOMAIN data THEN data[name] ELSE <<>>)
        ELSE data[k]]

AppendRecord(data, name, record) ==
    [k \in DOMAIN data \cup {name} |->
        IF k = name
        THEN Append(IF name \in DOMAIN data THEN data[name] ELSE <<>>, record)
        ELSE data[k]]

\* data[selected_tsum].pop(), and del data[selected_tsum] when that leaves
\* the list empty
PopLatest(data, name) ==
    IF Len(data[name]) = 1
    THEN [k \in DOMAIN data \ {name} |-> data[k]]
    ELSE [k \in DOMAIN data |->
            IF k = name THEN SubSeq(data[k], 1, Len(data[k]) - 1) ELSE data[k]]

\* a run whose event has no handler of its own: an edited input, a changed
\* uploader, or the run st.rerun() started
HandleNone ==
    /\ pc = "handler"
    /\ (event.type = "none" \/ event.type = "edit" \/ event.type = "file")
    /\ EndRun(msgs)
    /\ UNCHANGED <<cin, cout, last_click, secrets, session_cfg, loaded, coin_data, remote,
                   localfile, uploaded_file, confirm_delete, confirm_delete_all,
                   last_github_save>>

\* the reload button (lines 608-618)
HandleReload ==
    /\ pc = "handler"
    /\ event.type = "reload"
    /\ IF SidebarComplete(secrets, session_cfg)
       THEN \E net \in NetOutcomes :
              LET g == get_github_file(SidebarValue(secrets, session_cfg, "github_token"),
                                       net, remote)
              IN  IF g.error # ""
                  THEN EndRun(msgs \cup {"reload_error"}) /\ UNCHANGED coin_data
                  ELSE coin_data' = g.data /\ Rerun
       ELSE EndRun(msgs \cup {"config_incomplete"}) /\ UNCHANGED coin_data
    /\ UNCHANGED <<cin, cout, last_click, secrets, session_cfg, loaded, remote, localfile,
                   uploaded_file, confirm_delete, confirm_delete_all,
                   last_github_save>>

\* the manual save button (lines 621-631): save_to_github alone
HandleManualSave ==
    /\ pc = "handler"
    /\ event.type = "manual_save"
    /\ IF ~Truthy(coin_data)
       THEN EndRun(msgs)
       ELSE IF SidebarComplete(secrets, session_cfg)
       THEN /\ pc' = "get"
            /\ save' = [NoSave EXCEPT !.data = coin_data, !.via = "manual",
                                      !.cont = "after"]
            /\ trace' = [trace EXCEPT !.save =
                   [NoSaveTrace EXCEPT !.via = "manual", !.data = coin_data,
                                       !.complete = TRUE]]
            /\ UNCHANGED <<msgs, event>>
       ELSE EndRun(msgs \cup {"config_incomplete"})
    /\ UNCHANGED <<cin, cout, last_click, secrets, session_cfg, loaded, coin_data, remote,
                   localfile, uploaded_file, confirm_delete, confirm_delete_all,
                   last_github_save>>

\* delete all, first stage and cancel (lines 645-655)
HandleArmCancel_CancelKeepsArmed ==
    /\ pc = "handler"
    /\ (event.type = "arm_all" \/ event.type = "cancel_all")
    /\ IF Truthy(coin_data) /\ (confirm_delete_all <=> event.type = "cancel_all")
       THEN confirm_delete_all' = TRUE /\ Rerun
       ELSE EndRun(msgs) /\ UNCHANGED confirm_delete_all
    /\ UNCHANGED <<cin, cout, last_click, secrets, session_cfg, loaded, coin_data, remote,
                   localfile, uploaded_file, confirm_delete, last_github_save>>

HandleArmCancel ==
    /\ pc = "handler"
    /\ (event.type = "arm_all" \/ event.type = "cancel_all")
    /\ IF Truthy(coin_data) /\ (confirm_delete_all <=> event.type = "cancel_all")
       THEN confirm_delete_all' = (event.type = "arm_all") /\ Rerun
       ELSE EndRun(msgs) /\ UNCHANGED confirm_delete_all
    /\ UNCHANGED <<cin, cout, last_click, secrets, session_cfg, loaded, coin_data, remote,
                   localfile, uploaded_file, confirm_delete, last_github_save>>

\* delete all, execute (lines 657-660)
HandleExecAll ==
    /\ pc = "handler"
    /\ event.type = "exec_all"
    /\ IF Truthy(coin_data) /\ confirm_delete_all
       THEN save_data_to_session(EmptyColl, "after", msgs) /\ UNCHANGED event
       ELSE EndRun(msgs) /\ UNCHANGED <<coin_data, localfile, last_github_save>>
    /\ UNCHANGED <<cin, cout, last_click, secrets, session_cfg, loaded, remote,
                   uploaded_file, confirm_delete, confirm_delete_all>>

\* add a record (lines 806-815)
HandleAdd ==
    /\ pc = "handler"
    /\ event.type = "add"
    /\ IF event.inp.base > 0 /\ event.inp.boost > 0
       THEN /\ save_data_to_session(
                   AppendRecord(coin_data, event.name, RecOf(event.inp)),
                   "after", msgs)
            /\ UNCHANGED event
       ELSE /\ EndRun(msgs \cup {"add_invalid"})
            /\ UNCHANGED <<coin_data, localfile, last_github_save>>
    /\ UNCHANGED <<cin, cout, last_click, secrets, session_cfg, loaded, remote,
                   uploaded_file, confirm_delete, confirm_delete_all>>

\* delete the latest record (lines 908-919); the button is drawn when the
\* selected name has records
HandleDelete ==
    /\ pc = "handler"
    /\ event.type = "delete"
    /\ IF event.name \in DOMAIN coin_data /\ coin_data[event.name] # <<>>
       THEN IF confirm_delete
            THEN /\ save_data_to_session(PopLatest(coin_data, event.name),
                                         "after", msgs)
                 /\ UNCHANGED <<event, confirm_delete>>
            ELSE /\ confirm_delete' = TRUE
                 /\ EndRun(msgs \cup {"delete_confirm_needed"})
                 /\ UNCHANGED <<coin_data, localfile, last_github_save>>
       ELSE /\ EndRun(msgs)
            /\ UNCHANGED <<coin_data, localfile, last_github_save, confirm_delete>>
    /\ UNCHANGED <<cin, cout, last_click, secrets, session_cfg, loaded, remote,
                   uploaded_file, confirm_delete_all>>

\* the manual send buttons of the record form (lines 840-861); they are
\* drawn when the webhook URL is set
HandleSend ==
    /\ pc = "handler"
    /\ (event.type = "send_record" \/ event.type = "send_json")
    /\ LET url == HookUrl(secrets, session_cfg)
       IN  IF url = "" THEN EndRun(msgs)
           ELSE IF event.type = "send_record"
           THEN IF event.inp.base > 0 /\ event.inp.boost > 0
                THEN \E i \in 1..Len(HookAnswers) :
                       LET p == send_to_discord(url, event.name, RecOf(event.inp),
                                                HookAnswers[i])
                       IN  EndRunSent(msgs \cup {PostMsg(p)}, <<p>>)
                ELSE EndRun(msgs \cup {"add_invalid"})
           ELSE IF Truthy(coin_data)
                THEN \E i \in 1..Len(HookAnswers) :
                       LET p == send_json_to_discord(url, coin_data, HookAnswers[i])
                       IN  EndRunSent(msgs \cup {PostMsg(p)}, <<p>>)
                ELSE EndRun(msgs \cup {"no_data_to_send"})
    /\ UNCHANGED <<cin, cout, last_click, secrets, session_cfg, loaded, coin_data, remote,
                   localfile, uploaded_file, confirm_delete, confirm_delete_all,
                   last_github_save>>

\* the statements of a handler that follow its save
AfterSave ==
    /\ pc = "after"
    /\ CASE event.type = "manual_save" ->
              /\ EndRun(msgs \cup {IF last_github_save = "ok"
                                   THEN "manual_save_ok" ELSE "manual_save_fail"})
              /\ UNCHANGED <<confirm_delete, confirm_delete_all>>
         [] event.type = "add" ->
              /\ \E i \in 1..Len(HookAnswers), j \in 1..Len(HookAnswers) :
                   RerunSent(AutoPosts(
                       HookUrl(secrets, session_cfg),
                       AutoSend(secrets, session_cfg, "auto_send_discord",
                                "AUTO_SEND_DISCORD"),
                       AutoSend(secrets, session_cfg, "auto_send_json",
                                "AUTO_SEND_JSON"),
                       event.name, RecOf(event.inp), coin_data,
                       HookAnswers[i], HookAnswers[j]))
              /\ UNCHANGED <<confirm_delete, confirm_delete_all>>
         [] event.type = "delete" ->
              /\ confirm_delete' = FALSE
              /\ Rerun
              /\ UNCHANGED confirm_delete_all
         [] event.type = "exec_all" ->
              /\ confirm_delete_all' = FALSE
              /\ Rerun
              /\ UNCHANGED confirm_delete
    /\ UNCHANGED <<cin, cout, last_click, secrets, session_cfg, loaded, coin_data, remote,
                   localfile, uploaded_file, last_github_save>>

ChooseFile == ChooseFrom(UploadFiles)

\* Spec: only a file that does not parse is chosen
ChooseBadFile == ChooseFrom(<<Garbage>>)

StoreClicks == Click(<<"reload", "manual_save", "add">>, <<"A">>)

AllClicks ==
    Click(<<"reload", "manual_save", "arm_all", "cancel_all", "exec_all", "add",
            "delete">>, Names)

Next ==
    \/ FirstRun
    \/ EditConfig
    \/ ChooseBadFile
    \/ StoreClicks
    \/ UploadBlock
    \/ LoadData
    \/ SaveGet
    \/ SavePut
    \/ HandleNone
    \/ HandleReload
    \/ HandleManualSave
    \/ HandleAdd
    \/ AfterSave
    \/ OtherWriter

Spec == Init /\ [][Next]_vars

NextUI ==
    \/ FirstRun
    \/ ChooseFile
    \/ AllClicks
    \/ UploadBlock
    \/ LoadData
    \/ HandleNone
    \/ HandleReload
    \/ HandleManualSave
    \/ HandleArmCancel
    \/ HandleExecAll
    \/ HandleAdd
    \/ HandleDelete
    \/ AfterSave

SpecUI == InitUI /\ [][NextUI]_vars

(***************************************************************************)
(* SpecHook: a session with the local file as its store and the chat       *)
(* webhook configured by the secrets or by the user.                       *)
(***************************************************************************)
InitHook ==
    /\ InitSession(HookSecretsChoices, {Missing}, {Missing, JsonFile(CollB2)})
    /\ cin = NoCalcIn
    /\ cout = NoCalcOut

HookClicks == Click(<<"add", "send_record", "send_json">>, <<"A">>)

NextHook ==
    \/ FirstRun
    \/ EditHook
    \/ HookClicks
    \/ UploadBlock
    \/ LoadData
    \/ HandleNone
    \/ HandleAdd
    \/ HandleSend
    \/ AfterSave

SpecHook == InitHook /\ [][NextHook]_vars

(***************************************************************************)
(* SpecCalc: calculate_record and snap_rate_to_multiplier on bounded       *)
(* inputs.  base and boost range over small integers, zero and negative    *)
(* ones included, and boost also over the values around the item costs.    *)
(***************************************************************************)
BoostSamples ==
    {c + d : c \in {CostPlusCoin, Cost5to4, Cost5to4 + CostPlusCoin}, d \in -1..1}

CalcInputs ==
    [base : -1..MaxBase, boost : (-2..MaxBoost) \cup BoostSamples,
     use_5to4 : BOOLEAN, use_plus_coin : BOOLEAN]

NoCalcResult == [done |-> FALSE, rec |-> NoRecord,
                 snap_done |-> FALSE, snap |-> [n |-> 0, d |-> 1]]

InitCalc ==
    /\ InitSession({NoSecrets}, {Missing}, {Missing})
    /\ cin \in CalcInputs
    /\ cout = NoCalcResult

\* calculate_record(base, boost, use_5to4, use_plus_coin) is called
Compute ==
    /\ ~cout.done
    /\ cout' = [cout EXCEPT !.done = TRUE,
                   !.rec = calculate_record(cin.base, cin.boost, cin.use_5to4,
                                            cin.use_plus_coin)]
    /\ UNCHANGED <<cin, sessionVars>>

\* snap_rate_to_multiplier is called on the ratio of the inputs (line 308)
Snap ==
    /\ ~cout.snap_done
    /\ cout' = [cout EXCEPT !.snap_done = TRUE,
                   !.snap = snap_rate_to_multiplier(RateRaw(cin.base, cin.boost))]
    /\ UNCHANGED <<cin, sessionVars>>

NextCalc == Compute \/ Snap

SpecCalc == InitCalc /\ [][NextCalc]_vars

(***************************************************************************)
(* Claims about the first load (Spec).  trace.load describes the load of   *)
(* the first run until the next run starts.                                *)
(***************************************************************************)
LoadFailedRemote ==
    \/ trace.load.remote_get \in {"exception", "500"}
    \/ trace.load.remote_get = "200" /\ trace.load.remote_at.kind # "json"

\* C1: on the first load the store is chosen by strict precedence: with token,
\* owner and repository all non-empty the collection comes from the remote
\* store only and the local file is not read, also when the fetch fails;
\* otherwise from the local file when it exists; otherwise it is empty
C1_LoadPrecedence ==
    trace.load.done =>
        IF /\ Cfg(secrets, session_cfg, "github_token") # ""
           /\ Cfg(secrets, session_cfg, "github_owner") # ""
           /\ Cfg(secrets, session_cfg, "github_repo") # ""
        THEN /\ trace.load.remote_get # "none"
             /\ ~trace.load.local_read
             /\ coin_data = IF trace.load.remote_get = "200"
                               /\ trace.load.remote_at.kind = "json"
                            THEN trace.load.remote_at.content ELSE EmptyColl
        ELSE /\ trace.load.remote_get = "none"
             /\ trace.load.local_read = (localfile.kind # "missing")
             /\ coin_data = IF localfile.kind = "json"
                            THEN localfile.content ELSE EmptyColl

\* C1 witness: a complete configuration, a failed fetch and a local file that
\* holds a collection, which was not read
C1_Witness ==
    /\ trace.load.done
    /\ trace.load.complete
    /\ trace.load.remote_get = "exception"
    /\ localfile.kind = "json"
    /\ coin_data = EmptyColl

\* C3: a remote load whose GET answers 404 yields the empty collection and no
\* error value, and the session then holds the empty collection with no
\* warning (no element at all) drawn
C3_Remote404IsEmpty ==
    /\ get_github_file("v", "ok", Missing) =
           [data |-> EmptyColl, error |-> "", status |-> "404"]
    /\ trace.load.done /\ trace.load.remote_get = "404" =>
           loaded /\ coin_data = EmptyColl /\ msgs = {}

C3_Witness ==
    /\ trace.load.done
    /\ trace.load.remote_get = "404"
    /\ localfile.kind = "json"

\* C10: a failing first load leaves the session loaded with the empty
\* collection and a warning: a remote fetch that fails (exception, a status
\* other than 200 and 404, a payload that does not parse) and a local file
\* that exists but does not parse; a missing local file gives the empty
\* collection and no warning
C10_FailedLoadDegrades ==
    trace.load.done =>
        /\ loaded
        /\ trace.load.complete /\ LoadFailedRemote =>
               coin_data = EmptyColl /\ msgs = {"github_load_warning"}
        /\ ~trace.load.complete /\ localfile.kind = "garbage" =>
               coin_data = EmptyColl /\ msgs = {"local_load_warning"}
        /\ ~trace.load.complete /\ localfile.kind = "missing" =>
               coin_data = EmptyColl /\ msgs = {}

C10_Witness ==
    /\ trace.load.done
    /\ trace.load.complete
    /\ trace.load.remote_get = "200"
    /\ trace.load.remote_at.kind = "garbage"
    /\ "github_load_warning" \in msgs

(***************************************************************************)
(* Claims about saving (Spec).  trace.save describes the save of this run  *)
(* from its start until the run's next step after it has returned.         *)
(***************************************************************************)
SaveReturned == trace.save.remote # "none" \/ trace.save.local # "none"

C4_StaleMarkerRejected ==
    /\ pc = "put" =>
           /\ save.get_status # "none"
           /\ save.sha.present <=> save.get_status = "200"
           /\ save.sha.present => save.sha.of = save.remote_at_get
    /\ trace.save.put_status # "none" =>
           /\ trace.save.get_status # "none"
           /\ trace.save.sha_sent <=> trace.save.get_status = "200"
           /\ /\ trace.save.remote_at_put.kind # "missing"
              /\ trace.save.remote_at_put # trace.save.remote_at_get
              => /\ trace.save.remote = "fail"
                 /\ last_github_save = "fail"
                 /\ trace.save.via = "session" =>
                        /\ trace.save.local # "none"
                        /\ trace.save.local = "ok" =>
                               localfile = JsonFile(trace.save.data)

\* C4 witness: the GET answered 200, another writer replaced the file, the PUT
\* carried the stale marker and was answered 409, and the local file was
\* written
C4_Witness ==
    /\ trace.save.via = "session"
    /\ trace.save.get_status = "200"
    /\ trace.save.sha_sent
    /\ trace.save.put_status = "409"
    /\ trace.save.remote_at_put # trace.save.remote_at_get
    /\ trace.save.local = "ok"

(***************************************************************************)
(* Claims about the collection (SpecUI).                                   *)
(***************************************************************************)
\* C5: in every reachable state of a session every entity key of the
\* collection maps to a non-empty sequence of records
C5_NoEmptySequence ==
    \A k \in DOMAIN coin_data : coin_data[k] # <<>>

(***************************************************************************)
(* Claims about the record computation (SpecCalc).                         *)
(***************************************************************************)
ClaimedAdjust ==
    (IF cin.use_5to4 THEN 1800 ELSE 0) + (IF cin.use_plus_coin THEN 500 ELSE 0)

ClaimedFinal ==
    IF cin.boost - ClaimedAdjust > 0 THEN cin.boost - ClaimedAdjust ELSE 0

\* C6 as stated: for all base, boost and item flags final = max(0, boost -
\* adjust) with adjust = 1800 for item A plus 500 for item B, final is never
\* negative, and final equals boost when no item is used
C6_FinalAsClaimed ==
    cout.done =>
        /\ cout.rec.final = ClaimedFinal
        /\ cout.rec.final >= 0
        /\ ~cin.use_5to4 /\ ~cin.use_plus_coin => cout.rec.final = cin.boost

\* C6 as amended: final = max(0, boost - adjust), final is never negative, and
\* final equals boost when no item is used and boost is not negative
C6_FinalAmended ==
    cout.done =>
        /\ cout.rec.final = ClaimedFinal
        /\ cout.rec.final >= 0
        /\ ~cin.use_5to4 /\ ~cin.use_plus_coin /\ cin.boost >= 0 =>
               cout.rec.final = cin.boost

\* C6 witness: item A used on a boost above its cost
C6_Witness ==
    /\ cout.done
    /\ cin.use_5to4 /\ ~cin.use_plus_coin
    /\ cin.boost = 1801
    /\ cout.rec.final = 1

\* a table entry (times 10) as the stored decimal with three places
TableDec(m10) == [whole |-> m10 \div 10, frac |-> (m10 % 10) * 100]

\* |m - boost/base| times 10 * base, for base > 0
ClaimedDist(m10) == Abs(m10 * cin.base - 10 * cin.boost)

TableIndex == 1..Len(COIN_MULTIPLIERS)

\* C7: for positive base and boost the stored rate is a table element to which
\* no table entry is strictly closer, measured from boost/base whatever the
\* item flags; a ratio that is a table member is returned unchanged
C7_NearestTableEntry ==
    cout.done /\ cin.base > 0 /\ cin.boost > 0 =>
        /\ \E i \in TableIndex :
             /\ cout.rec.rate = TableDec(COIN_MULTIPLIERS[i])
             /\ \A j \in TableIndex :
                  ClaimedDist(COIN_MULTIPLIERS[j]) >= ClaimedDist(COIN_MULTIPLIERS[i])
        /\ \A j \in TableIndex :
             ClaimedDist(COIN_MULTIPLIERS[j]) = 0 =>
                 cout.rec.rate = TableDec(COIN_MULTIPLIERS[j])

\* C7 witness: 13/10 with an item used, stored as 1.3
C7_Witness ==
    /\ cout.done
    /\ cin.base = 10 /\ cin.boost = 13 /\ cin.use_5to4
    /\ cout.rec.rate = [whole |-> 1, frac |-> 300]

\* C8: a positive ratio exactly half-way between two neighbouring table
\* entries snaps to the smaller of the two
C8_TieTakesSmaller ==
    cin.base > 0 /\ cin.boost > 0 =>
        \A i \in 1..(Len(COIN_MULTIPLIERS) - 1) :
            2 * 10 * cin.boost = (COIN_MULTIPLIERS[i] + COIN_MULTIPLIERS[i + 1]) * cin.base =>
                /\ cout.done => cout.rec.rate = TableDec(COIN_MULTIPLIERS[i])
                /\ cout.snap_done =>
                       cout.snap = [n |-> COIN_MULTIPLIERS[i], d |-> 10]

\* C8 witness: 7/4 = 1.75 snaps to 1.5
C8_Witness ==
    /\ cout.done /\ cout.snap_done
    /\ cin.base = 4 /\ cin.boost = 7
    /\ cout.snap = [n |-> 15, d |-> 10]
    /\ cout.rec.rate = [whole |-> 1, frac |-> 500]

\* C9: snap returns an input x <= 0 unchanged, and calculate_record with
\* base = 0 returns rate_raw = 0 and, through the pass-through, rate = 0
C9_NonPositivePassThrough ==
    /\ cout.snap_done /\ cin.base > 0 /\ cin.boost <= 0 =>
           cout.snap = [n |-> cin.boost, d |-> cin.base]
    /\ cout.snap_done /\ cin.base = 0 => cout.snap = [n |-> 0, d |-> 1]
    /\ cout.done /\ cin.base = 0 =>
           cout.rec.rate_raw = Zero /\ cout.rec.rate = Zero

\* C9 witness: base = 0 with a positive boost
C9_Witness ==
    /\ cout.done /\ cout.snap_done
    /\ cin.base = 0 /\ cin.boost = 50
    /\ cout.rec.rate = Zero

RejectedByRevisionCheck == trace.save.put_status = "409" \/ trace.save.put_status = "422"

\* an accepted PUT leaves the remote file equal to the whole collection of the
\* saving session, whatever the file held before
AcceptedPutOverwrites ==
    [][pc = "put" /\ pc' # pc /\ last_github_save' = "ok" =>
           remote' = JsonFile(coin_data) /\ coin_data = save.data]_vars

\* C13 as stated: the last writer wins (after an accepted PUT the remote file
\* is the whole collection of the saving session), and a save is rejected by
\* the revision check only when another session's write landed between the
\* save's own GET and PUT
C13_LastWriterAsClaimed ==
    /\ AcceptedPutOverwrites
    /\ [](RejectedByRevisionCheck =>
              trace.save.remote_at_put # trace.save.remote_at_get)

\* C13 as amended: the last writer wins, and a save is rejected by the
\* revision check only when another session's write landed between the save's
\* own GET and PUT, or when that GET answered an error status (neither 200 nor
\* 404), so that no marker was sent for a file that exists
C13_LastWriterAmended ==
    /\ AcceptedPutOverwrites
    /\ [](RejectedByRevisionCheck =>
              \/ trace.save.remote_at_put # trace.save.remote_at_get
              \/ /\ trace.save.get_status # "200"
                 /\ trace.save.get_status # "404"
                 /\ ~trace.save.sha_sent
                 /\ trace.save.remote_at_put.kind # "missing")

\* C13 witness: the session loaded, the other session then wrote its record,
\* and the session's accepted save replaced the file by its own collection,
\* in which the other session's record is missing
C13_Witness ==
    /\ trace.save.put_status = "200"
    /\ trace.save.remote_at_get = JsonFile(CollA2)
    /\ remote = JsonFile(coin_data)
    /\ coin_data = [k \in {"A"} |-> <<Rec1, Rec1>>]

(***************************************************************************)
(* Claim about the local file (SpecUI).                                    *)
(***************************************************************************)
\* C14: a local-file save is atomic: whenever the local data file changes it
\* becomes the complete new content (the collection being saved); a save that
\* fails leaves the complete previous content; the file is never left empty
\* or partial
C14_AtomicLocalSave ==
    [][localfile' = localfile \/ localfile' = JsonFile(coin_data')]_vars

(***************************************************************************)
(* The configuration lookup as a pure function (SpecCfg): the secrets, the *)
(* session state and the arguments of one get_config_value call are drawn  *)
(* in the initial state, Lookup makes the call.                            *)
(***************************************************************************)
\* a key-value store holding any subset of the keys "k" and "K"; a key that
\* is present holds the empty string or a value naming the store and the key
KvSamples(tag) ==
    UNION {[ks -> {"", tag}] : ks \in SUBSET {"k", "K"}}

LookupSecrets ==
    {[readable |-> r, kv |-> kv] : r \in BOOLEAN, kv \in KvSamples("secret")}

LookupSessions == KvSamples("session")

\* key, fallback_key ("" stands for None) and default_value of the call
LookupArgs ==
    {[key |-> "k", fallback_key |-> f, default_value |-> d] :
        f \in {"K", ""}, d \in {"", "default"}}

NoLookup == [done |-> FALSE, value |-> ""]

InitCfg ==
    /\ secrets \in LookupSecrets
    /\ session_cfg \in LookupSessions
    /\ cin \in LookupArgs
    /\ cout = NoLookup
    /\ loaded = FALSE
    /\ coin_data = EmptyColl
    /\ remote = Missing
    /\ localfile = Missing
    /\ uploaded_file = NoFile
    /\ confirm_delete = FALSE
    /\ confirm_delete_all = FALSE
    /\ last_github_save = "unset"
    /\ msgs = {}
    /\ pc = "idle"
    /\ event = NoEvent
    /\ save = NoSave
    /\ trace = NoTrace
    /\ last_click = NoClick

\* get_config_value(key, fallback_key, default_value) is called
Lookup ==
    /\ ~cout.done
    /\ cout' = [done |-> TRUE,
                value |-> get_config_value(secrets, session_cfg, cin.key,
                                           cin.fallback_key, cin.default_value)]
    /\ UNCHANGED <<cin, sessionVars>>

NextCfg == Lookup

SpecCfg == InitCfg /\ [][NextCfg]_vars

\* the providers in the claimed priority order: whether each holds a value
\* for the call, and the value
Provider(usable, kv, k) ==
    [present |-> usable /\ k # "" /\ k \in DOMAIN kv,
     value |-> IF k \in DOMAIN kv THEN kv[k] ELSE ""]

ProvidersInOrder ==
    << Provider(secrets.readable, secrets.kv, cin.key),
       Provider(secrets.readable, secrets.kv, cin.fallback_key),
       Provider(TRUE, session_cfg, cin.key),
       Provider(TRUE, session_cfg, cin.fallback_key),
       [present |-> TRUE, value |-> cin.default_value] >>

FirstPresent(ps) ==
    ps[CHOOSE i \in 1..Len(ps) :
           ps[i].present /\ \A j \in 1..(i - 1) : ~ps[j].present].value

\* C15: get_config_value returns the first present value in the order secret
\* under the primary key, secret under the fallback key, session value under
\* the primary key, session value under the fallback key, default; a value
\* present in the secrets is never overridden by a session value; when reading
\* the secrets fails the result comes from the session values or the default
C15_PriorityOrder ==
    cout.done =>
        /\ cout.value = FirstPresent(ProvidersInOrder)
        /\ secrets.readable /\ cin.key \in DOMAIN secrets.kv =>
               cout.value = secrets.kv[cin.key]
        /\ ~secrets.readable =>
               cout.value = FirstPresent(SubSeq(ProvidersInOrder, 3, 5))

\* C15 witness: both stores hold the primary key, the secrets hold only the
\* fallback key's value non-empty, and the call has returned the (empty)
\* secret of the primary key
C15_Witness ==
    /\ cout.done
    /\ secrets.readable
    /\ DOMAIN secrets.kv = {"k", "K"}
    /\ secrets.kv["k"] = "" /\ secrets.kv["K"] = "secret"
    /\ DOMAIN session_cfg = {"k"} /\ session_cfg["k"] = "session"
    /\ cin.fallback_key = "K"
    /\ cout.value = ""

(***************************************************************************)
(* Claims about the add and delete operations (SpecUI).                    *)
(***************************************************************************)
\* the records of an entity, none when the entity has no key
RecordsOf(data, name) == IF name \in DOMAIN data THEN data[name] ELSE <<>>

\* every entity but name has the same records in both collections
OthersSame(old, new, name) ==
    /\ DOMAIN new \ {name} = DOMAIN old \ {name}
    /\ \A k \in DOMAIN old \ {name} : new[k] = old[k]

\* C16: an add appends the record computed from its inputs at the end of the
\* selected entity's sequence, keeps that entity's earlier records in place
\* and leaves every other entity alone; a delete-latest removes the last
\* record of the selected entity's sequence and nothing else
C16_AppendOnly ==
    /\ [][pc = "handler" /\ event.type = "add" /\ pc' = "after" =>
              LET old == RecordsOf(coin_data, event.name)
                  new == RecordsOf(coin_data', event.name)
              IN  /\ Len(new) = Len(old) + 1
                  /\ SubSeq(new, 1, Len(old)) = old
                  /\ new[Len(new)] = calculate_record(event.inp.base, event.inp.boost,
                                                      event.inp.use_5to4,
                                                      event.inp.use_plus_coin)
                  /\ OthersSame(coin_data, coin_data', event.name)]_vars
    /\ [][pc = "handler" /\ event.type = "delete" /\ pc' = "after" =>
              LET old == RecordsOf(coin_data, event.name)
                  new == RecordsOf(coin_data', event.name)
              IN  /\ old # <<>>
                  /\ new = SubSeq(old, 1, Len(old) - 1)
                  /\ OthersSame(coin_data, coin_data', event.name)]_vars

\* C16 witness: a record was added behind the record loaded for entity B and
\* the delete-latest that followed has removed it again
C16_Witness ==
    /\ pc = "after"
    /\ event.type = "delete"
    /\ event.name = "B"
    /\ uploaded_file = NoFile
    /\ coin_data = CollB2
    /\ localfile = JsonFile(CollB2)

\* C17: a delete-latest removes a record only when the click immediately
\* follows another delete click on the same entity, with no other interaction
\* in between; a delete click that does not remove leaves the collection and
\* the stores unchanged; the confirmation is cleared once the deletion has
\* been carried out
C17_TwoClicksSameEntity ==
    /\ [][pc = "handler" /\ event.type = "delete" /\ pc' # pc
               /\ ~last_click.repeat =>
              /\ coin_data' = coin_data
              /\ localfile' = localfile
              /\ remote' = remote]_vars
    /\ [][pc = "after" /\ event.type = "delete" /\ pc' # pc =>
              ~confirm_delete']_vars

\* the step of the handler of one of the three delete-all buttons
DeleteAllStep(type) == pc = "handler" /\ event.type = type /\ pc' # pc

\* C18: of the delete-all buttons only execute changes the collection and the
\* stores: it replaces the collection by the empty mapping and saves that
\* mapping; execute is clicked only while the confirmation is armed; the
\* delete-all button arms and cancel disarms the confirmation, both leaving
\* the collection and the stores unchanged; after execute the confirmation is
\* disarmed
C18_DeleteAllTwoStage ==
    /\ [](event.type = "exec_all" => confirm_delete_all)
    /\ [][DeleteAllStep("arm_all") \/ DeleteAllStep("cancel_all") =>
              /\ coin_data' = coin_data
              /\ localfile' = localfile
              /\ remote' = remote
              /\ pc' = "upload" => (confirm_delete_all' <=> event.type = "arm_all")]_vars
    /\ [][DeleteAllStep("cancel_all") => ~confirm_delete_all']_vars
    /\ [][DeleteAllStep("exec_all") /\ pc' = "after" =>
              /\ confirm_delete_all
              /\ coin_data' = EmptyColl
              /\ trace'.save.data = EmptyColl
              /\ trace'.save.local = "ok" => localfile' = JsonFile(EmptyColl)
              /\ trace'.save.local # "ok" => "file_save_error" \in msgs']_vars
    /\ [][pc = "after" /\ event.type = "exec_all" /\ pc' # pc =>
              ~confirm_delete_all' /\ coin_data' = EmptyColl]_vars

\* C18 witness: the armed execute has emptied the collection and the empty
\* mapping is in the local file
C18_Witness ==
    /\ pc = "after"
    /\ event.type = "exec_all"
    /\ confirm_delete_all
    /\ coin_data = EmptyColl
    /\ localfile = JsonFile(EmptyColl)
    /\ trace.save.local = "ok"

\* C19: once loaded, the session collection changes only by an add, a
\* delete-latest, a delete-all, a reload or the upload of a newly chosen file;
\* in particular the file still held by the uploader from an earlier run does
\* not replace the collection on the rerun that follows an add
C19_AddedRecordStays ==
    [][loaded /\ coin_data' # coin_data =>
           \/ /\ pc = "handler"
              /\ \/ event.type = "add"
                 \/ event.type = "delete"
                 \/ event.type = "exec_all"
                 \/ event.type = "reload"
           \/ pc = "upload" /\ event.type = "file"]_vars

(***************************************************************************)
(* Claim about the chat-webhook posts (SpecHook).                          *)
(***************************************************************************)
\* the auto-send toggles as the record form sees them
AutoRecordOn ==
    AutoSend(secrets, session_cfg, "auto_send_discord", "AUTO_SEND_DISCORD")
AutoJsonOn ==
    AutoSend(secrets, session_cfg, "auto_send_json", "AUTO_SEND_JSON")

\* the record the add of the current run has computed
AddedRecord ==
    calculate_record(event.inp.base, event.inp.boost, event.inp.use_5to4,
                     event.inp.use_plus_coin)

\* C20: the posts of an add are issued after the record has been appended
\* and save_data_to_session has run; the record post only with the record
\* toggle on, the backup post only with the backup toggle on, both only to a
\* configured URL; the backup is the collection that holds the new record;
\* no post, automatic or manual, failed or not, changes the session
\* collection or the saved data
C20_PostsAfterSave ==
    /\ [][trace'.posts # trace.posts /\ trace'.posts # <<>> =>
              /\ coin_data' = coin_data
              /\ localfile' = localfile
              /\ remote' = remote
              /\ \/ pc = "after" /\ event.type = "add"
                 \/ /\ pc = "handler"
                    /\ event.type = "send_record" \/ event.type = "send_json"
              /\ \A i \in 1..Len(trace'.posts) :
                    /\ trace'.posts[i].requested
                    /\ trace'.posts[i].url # ""
                    /\ trace'.posts[i].url = HookUrl(secrets, session_cfg)]_vars
    /\ [][pc = "after" /\ event.type = "add" /\ pc' # pc =>
              /\ trace.save.data = coin_data
              /\ trace.save.local # "none"
              /\ event.name \in DOMAIN coin_data
              /\ coin_data[event.name][Len(coin_data[event.name])] = AddedRecord
              /\ \A i \in 1..Len(trace'.posts) :
                    LET p == trace'.posts[i]
                    IN  IF p.kind = "record"
                        THEN /\ AutoRecordOn
                             /\ p.name = event.name
                             /\ p.record = <<AddedRecord>>
                        ELSE /\ AutoJsonOn
                             /\ p.data = coin_data
                             /\ p.data[event.name][Len(p.data[event.name])]
                                    = AddedRecord]_vars

\* C20 witness: the add of a record for A behind the loaded records of B has
\* posted twice; the record post failed, the backup was accepted and holds
\* the new record; collection and local file hold it as well
C20_Witness ==
    /\ pc = "upload"
    /\ Len(trace.posts) = 2
    /\ trace.posts[1].kind = "record" /\ ~trace.posts[1].ok
    /\ trace.posts[2].kind = "json" /\ trace.posts[2].ok
    /\ trace.posts[2].data = coin_data
    /\ DOMAIN coin_data = {"A", "B"}
    /\ coin_data["A"] = <<Rec1>>
    /\ localfile = JsonFile(coin_data)

====
